---- MODULE Spec2Model ----
(***************************************************************************)
(* A model of the cct module runtime (cct/module.py): variable             *)
(* substitution, argument binding, the ModuleRunner pipeline, the          *)
(* CctArtifact fetch-and-verify path, module construction, discovery by    *)
(* ModuleManager, Module.getenv and ShellModule._discover; and of the      *)
(* teardown of JBossCliModule (cct/lib/jboss_module.py).                   *)
(*                                                                         *)
(* Python strings are sequences of one-character strings, so that split,   *)
(* strip, startswith and concatenation are computed as the code computes   *)
(* them.  A dict is a function whose DOMAIN is its key set.                *)
(***************************************************************************)
EXTENDS Naturals, Sequences, FiniteSets, TLC

VARIABLES
    \* --- variable substitution (Module._replace_variables) ---
    sString, sHost, sEnv, sResult, sDone,
    \* --- argument binding (Module.run, lines 247-257) ---
    bArgs, bParams, bPositional, bKwargs, bDone,
    \* --- the pipeline (ModuleRunner.run over one module) ---
    ops,            \* module.operations: records command, args, state
    kind,           \* "native" (a Module subclass) or "shell" (a ShellModule)
    hostEnv,        \* os.environ
    modEnv,         \* module.instance.environment
    pc,             \* where ModuleRunner.run is: idle, setup, loop, done, raised
    idx,            \* the loop's position in module.operations (1-based)
    runnerState,    \* ModuleRunner.state
    moduleState,    \* module.instance.state
    dispatched,     \* this run: indices handed to Module.run, in call order
    invoked,        \* names whose capability was called (module.py 258)
    teardowns,      \* this run: calls of teardown()
    failure,        \* this run: where an exception left run(), or "none"
    runs,           \* calls of ModuleRunner.run so far
    startStates,    \* the operations' states when this run began
    \* --- artifacts (Module._get_artifacts, CctArtifact) ---
    fs,             \* the file system: path -> bytes, or "absent"
    artifacts,      \* Module.artifacts, the class-level dict: name -> artifact
    building,       \* the Module.__init__ in progress: its directory, artifacts done
    constructs,     \* calls of Module.__init__ so far
    lastFetch,      \* the last CctArtifact.fetch: artifact, file before, downloads, end
    validated,      \* artifacts whose file matched its checksum when fetch ended
    scriptEnv,      \* the artifact variables of the last _run_function
    \* --- module construction (Module.__init__, check_module_sh) ---
    instances,      \* the module objects constructed so far, in order
    initRaised,     \* whether the last constructor call raised to its caller
    \* --- discovery (ModuleManager.discover_modules) ---
    tree,           \* the manifests: directory -> what its module.yaml holds
    stack,          \* the active discover_modules calls, innermost first
    modules,        \* ModuleManager.modules, the class-level dict
    installs,       \* the calls of clone_repo made by install_module, in order
    swallowed,      \* what the handler of lines 54-55 has caught, by directory
    walked,         \* the directories whose module.yaml was opened
    dpc,            \* where the outermost discover_modules is
    \* --- Module.getenv ---
    gName, gHost, gEnv, gDefault, gResult, gDone,
    \* --- ShellModule._discover ---
    script,         \* the lines of the script file
    names,          \* self.names: function name -> descriptor
    iEnd,           \* how _discover ended: "none" yet, "returned" or "raised"
    \* --- JBossCliModule.teardown ---
    jpc,            \* where teardown is: idle, wait (line 89), sleep (line 90), done, raised
    jprocess,       \* what jboss_process.poll() returns
    jnow,           \* time()
    jstart,         \* start, taken at line 88
    jtimeout,       \* self.jboss_timeout
    jcleared        \* whether _clear() ran

substVars == <<sString, sHost, sEnv, sResult, sDone>>
bindVars == <<bArgs, bParams, bPositional, bKwargs, bDone>>
runVars == <<ops, kind, hostEnv, modEnv, pc, idx, runnerState, moduleState,
             dispatched, invoked, teardowns, failure, runs, startStates>>
artVars == <<fs, artifacts, building, constructs, lastFetch, validated, scriptEnv>>
consVars == <<instances, initRaised>>
discVars == <<tree, stack, modules, installs, swallowed, walked, dpc>>
getVars == <<gName, gHost, gEnv, gDefault, gResult, gDone>>
introVars == <<script, names, iEnd>>
jbossVars == <<jpc, jprocess, jnow, jstart, jtimeout, jcleared>>
laterVars == <<consVars, discVars, getVars, introVars, jbossVars>>
vars == <<substVars, bindVars, runVars, artVars, laterVars>>

(***************************************************************************)
(* Bounds of the model.                                                    *)
(***************************************************************************)
MaxStrLen == 3
MaxArgs == 2
MaxOps == 3
MaxRuns == 2
MaxArtifacts == 2
MaxConstructs == 2
MaxLines == 4
\* the model's clock stops here, past every timeout it uses
MaxTime == 130
\* the nested discover_modules calls the interpreter's recursion limit allows
RecursionLimit == 3

(***************************************************************************)
(* String literals used by the program and by the inputs.                  *)
(***************************************************************************)
SP == " "
SIGIL == "$"
EQ == "="

sSetup == <<"s", "e", "t", "u", "p">>
sRun == <<"r", "u", "n">>
sUrl == <<"u", "r", "l">>
sVersion == <<"v", "e", "r", "s", "i", "o", "n">>
sTeardown == <<"t", "e", "a", "r", "d", "o", "w", "n">>
sDump == <<"d", "u", "m", "p">>
sFOO == <<"F", "O", "O">>
sBar == <<"b", "a", "r">>
sBaz == <<"b", "a", "z">>
sSelf == <<"s", "e", "l", "f">>
sPort == <<"p", "o", "r", "t">>
sExtra == <<"e", "x", "t", "r", "a">>
s8080 == <<"8", "0", "8", "0">>
sGetenv == <<"g", "e", "t", "e", "n", "v">>
sNoSuch == <<"n", "o", "p", "e">>
sVarC == <<SIGIL, "C">>

\* An empty dict.
EmptyDict == [k \in {} |-> <<>>]

(***************************************************************************)
(* Python string primitives.                                               *)
(***************************************************************************)
\* c in s
Contains(s, c) == \E i \in 1..Len(s) : s[i] = c

\* s.index(c), for a string that contains c
IndexOf(s, c) == CHOOSE i \in 1..Len(s) : s[i] = c /\ \A j \in 1..(i - 1) : s[j] # c

\* s.split(sep) for a one-character sep: every separator cuts, empty tokens are kept
RECURSIVE Split(_, _)
Split(s, sep) ==
    IF ~Contains(s, sep) THEN <<s>>
    ELSE LET i == IndexOf(s, sep)
         IN <<SubSeq(s, 1, i - 1)>> \o Split(SubSeq(s, i + 1, Len(s)), sep)

\* s.split(sep, 1): only the first separator cuts
SplitFirst(s, sep) ==
    LET i == IndexOf(s, sep)
    IN <<SubSeq(s, 1, i - 1), SubSeq(s, i + 1, Len(s))>>

\* s.startswith(c)
StartsWith(s, c) == Len(s) > 0 /\ s[1] = c

\* s.lstrip(), s.rstrip(), s.strip(); the only whitespace of the model is " "
RECURSIVE LStrip(_)
LStrip(s) == IF Len(s) > 0 /\ s[1] = SP THEN LStrip(Tail(s)) ELSE s

RECURSIVE RStrip(_)
RStrip(s) == IF Len(s) > 0 /\ s[Len(s)] = SP THEN RStrip(SubSeq(s, 1, Len(s) - 1)) ELSE s

Strip(s) == LStrip(RStrip(s))

\* the truth value of d.get(k): false when k is absent and when d[k] is ""
Truthy(d, k) == k \in DOMAIN d /\ d[k] # <<>>

(***************************************************************************)
(* Module._replace_variables (module.py 201-215).                          *)
(***************************************************************************)
\* lines 205-213: one token of the loop
ReplaceToken(token, host, env) ==
    IF StartsWith(token, SIGIL)
    THEN LET var_name == Tail(token)
         IN IF Truthy(host, var_name) THEN host[var_name]
            ELSE IF Truthy(env, var_name) THEN env[var_name]
            ELSE token
    ELSE token

\* a slip of line 214: the token is appended without the separator
AppendTokenBare(result, token) == result \o token

\* line 214: result += token + " "
AppendToken(result, token) == result \o token \o <<SP>>

RECURSIVE ReplaceLoop(_, _, _, _)
ReplaceLoop(tokens, host, env, result) ==
    IF tokens = <<>> THEN result
    ELSE ReplaceLoop(Tail(tokens), host, env,
                     AppendToken(result, ReplaceToken(Head(tokens), host, env)))

_replace_variables(string, host, env) == ReplaceLoop(Split(string, SP), host, env, <<>>)

\* Module._process_environment (235-240), for one string: only a string that
\* contains the sigil is rewritten
ProcessString(string, host, env) ==
    IF Contains(string, SIGIL) THEN _replace_variables(string, host, env) ELSE string

(***************************************************************************)
(* Argument binding of Module.run (module.py 247-257).                     *)
(***************************************************************************)
\* a slip of the binding: every token holding "=" is taken as a named parameter
PositionalOfUnchecked(arg, params) ==
    IF Contains(arg, EQ) THEN <<>> ELSE <<Strip(arg)>>

\* lines 250-257: what one argument adds to args (positional)
PositionalOf(arg, params) ==
    IF Contains(arg, EQ)
    THEN LET kv == SplitFirst(arg, EQ)
         IN IF kv[1] \in params THEN <<>> ELSE <<Strip(arg)>>
    ELSE <<Strip(arg)>>

RECURSIVE BindArgs(_, _)
BindArgs(opargs, params) ==
    IF opargs = <<>> THEN <<>>
    ELSE PositionalOf(Head(opargs), params) \o BindArgs(Tail(opargs), params)

\* lines 250-253: kwargs[key] = value; a later token of the same key overwrites
RECURSIVE BindKwargs(_, _, _)
BindKwargs(opargs, params, kwargs) ==
    IF opargs = <<>> THEN kwargs
    ELSE LET arg == Head(opargs)
             kv == SplitFirst(arg, EQ)
         IN IF Contains(arg, EQ) /\ kv[1] \in params
            THEN BindKwargs(Tail(opargs), params,
                            [k \in DOMAIN kwargs \cup {kv[1]} |->
                                IF k = kv[1] THEN kv[2] ELSE kwargs[k]])
            ELSE BindKwargs(Tail(opargs), params, kwargs)

(***************************************************************************)
(* Inputs.                                                                 *)
(***************************************************************************)
\* every string over the alphabet up to the bound
StringsUpTo(alphabet, n) == UNION {[1..k -> alphabet] : k \in 0..n}

SubstAlphabet == {SIGIL, SP, "F"}

SubstStrings == StringsUpTo(SubstAlphabet, MaxStrLen) \cup {<<SIGIL>> \o sFOO}

HostEnvs == {EmptyDict,
             (<<"F">> :> <<"b">>) @@ (sFOO :> sBar),
             (<<"F">> :> <<>>) @@ (sFOO :> <<>>)}

ModuleEnvs == {EmptyDict, (<<"F">> :> <<"z">>) @@ (sFOO :> sBaz)}

ArgTokens == { sPort \o <<EQ>> \o s8080,
               sExtra,
               <<"q", EQ, "1">>,
               sPort \o <<EQ, "1", EQ, "2">>,
               <<SP>> \o sExtra,
               sExtra \o <<SP>>,
               <<EQ, "x">> }

ArgLists == UNION {[1..k -> ArgTokens] : k \in 0..MaxArgs}

ParamSets == { {}, {sSelf}, {sSelf, sPort} }

(***************************************************************************)
(* Specification of the substitution function on bounded inputs.           *)
(***************************************************************************)
\* each specification below moves one part of the state and holds the other
\* parts at these values
BindIdle ==
    /\ bArgs = <<>> /\ bParams = {} /\ bPositional = <<>>
    /\ bKwargs = EmptyDict /\ bDone = FALSE

SubstIdle ==
    /\ sString = <<>> /\ sHost = EmptyDict /\ sEnv = EmptyDict
    /\ sResult = <<>> /\ sDone = FALSE

RunIdle ==
    /\ ops = <<>> /\ kind = "native" /\ hostEnv = EmptyDict /\ modEnv = EmptyDict
    /\ pc = "idle" /\ idx = 1 /\ runnerState = "Processing" /\ moduleState = "NotRun"
    /\ dispatched = <<>> /\ invoked = {} /\ teardowns = 0 /\ failure = "none"
    /\ runs = 0 /\ startStates = <<>>

NoFetch ==
    [name |-> <<>>, chksum |-> <<>>, path |-> <<>>, before |-> "absent",
     downloads |-> 0, outcome |-> "none"]

NotBuilding == [dir |-> "", active |-> FALSE, done |-> 0]

ArtIdle ==
    /\ fs = EmptyDict /\ artifacts = EmptyDict /\ building = NotBuilding
    /\ constructs = 0 /\ validated = {} /\ scriptEnv = EmptyDict
    /\ lastFetch = NoFetch

ConsIdle == instances = <<>> /\ initRaised = FALSE

DiscIdle ==
    /\ tree = EmptyDict /\ stack = <<>> /\ modules = EmptyDict /\ installs = <<>>
    /\ swallowed = {} /\ walked = {} /\ dpc = "idle"

GetIdle ==
    /\ gName = <<>> /\ gHost = EmptyDict /\ gEnv = EmptyDict /\ gDefault = <<>>
    /\ gResult = <<>> /\ gDone = FALSE

IntroIdle == script = <<>> /\ names = EmptyDict /\ iEnd = "none"

JbossIdle ==
    /\ jpc = "idle" /\ jprocess = "none" /\ jnow = 0 /\ jstart = 0
    /\ jtimeout = 0 /\ jcleared = FALSE

LaterIdle == ConsIdle /\ DiscIdle /\ GetIdle /\ IntroIdle /\ JbossIdle

InitSubst ==
    /\ sString \in SubstStrings
    /\ sHost \in HostEnvs
    /\ sEnv \in ModuleEnvs
    /\ sResult = <<>>
    /\ sDone = FALSE
    /\ BindIdle
    /\ RunIdle
    /\ ArtIdle
    /\ LaterIdle

Substitute ==
    /\ ~sDone
    /\ sResult' = ProcessString(sString, sHost, sEnv)
    /\ sDone' = TRUE
    /\ UNCHANGED <<sString, sHost, sEnv, bindVars, runVars, artVars, laterVars>>

NextSubst == Substitute

SpecSubst == InitSubst /\ [][NextSubst]_vars

(***************************************************************************)
(* C4.  Substitution as the specification words it.                        *)
(***************************************************************************)
\* a token that begins with the sigil becomes the host value if the name is
\* set there, else the module value if set there, else stays as it is
ClaimedToken(token, host, env) ==
    IF StartsWith(token, SIGIL)
    THEN LET var_name == Tail(token)
         IN IF var_name \in DOMAIN host THEN host[var_name]
            ELSE IF var_name \in DOMAIN env THEN env[var_name]
            ELSE token
    ELSE token

\* the tokens put back with the separators they had, nothing else changed
RECURSIVE ClaimedJoin(_, _, _)
ClaimedJoin(tokens, host, env) ==
    IF Len(tokens) = 1 THEN ClaimedToken(tokens[1], host, env)
    ELSE ClaimedToken(tokens[1], host, env) \o <<SP>> \o ClaimedJoin(Tail(tokens), host, env)

\* C4: substitution replaces each token that begins with "$" by the host
\* value, else the module value, else leaves it, and changes nothing else in
\* the string; "$FOO" with host FOO=bar and module FOO=baz becomes exactly
\* "bar", and with neither set it stays exactly "$FOO".
C4_SubstitutionExact ==
    sDone =>
        /\ sResult = ClaimedJoin(Split(sString, SP), sHost, sEnv)
        /\ (sString = <<SIGIL>> \o sFOO /\ sFOO \in DOMAIN sHost /\ sHost[sFOO] = sBar)
               => sResult = sBar
        /\ (sString = <<SIGIL>> \o sFOO /\ sFOO \notin DOMAIN sHost /\ sFOO \notin DOMAIN sEnv)
               => sResult = <<SIGIL>> \o sFOO

(***************************************************************************)
(* Specification of the argument binding on bounded inputs.                *)
(***************************************************************************)
InitBind ==
    /\ bArgs \in ArgLists
    /\ bParams \in ParamSets
    /\ bPositional = <<>>
    /\ bKwargs = EmptyDict
    /\ bDone = FALSE
    /\ SubstIdle
    /\ RunIdle
    /\ ArtIdle
    /\ LaterIdle

Bind ==
    /\ ~bDone
    /\ bPositional' = BindArgs(bArgs, bParams)
    /\ bKwargs' = BindKwargs(bArgs, bParams, EmptyDict)
    /\ bDone' = TRUE
    /\ UNCHANGED <<bArgs, bParams, substVars, runVars, artVars, laterVars>>

NextBind == Bind

SpecBind == InitBind /\ [][NextBind]_vars

(***************************************************************************)
(* C5.  Argument binding.                                                  *)
(***************************************************************************)
\* the key and the value of a token that holds "=": cut at the first "="
KeyOf(arg) == SubSeq(arg, 1, IndexOf(arg, EQ) - 1)
ValueOf(arg) == SubSeq(arg, IndexOf(arg, EQ) + 1, Len(arg))

\* the indices of the tokens bound by name, and of the positional ones
NamedIdx == {i \in 1..Len(bArgs) : Contains(bArgs[i], EQ) /\ KeyOf(bArgs[i]) \in bParams}
PositionalIdx == (1..Len(bArgs)) \ NamedIdx

\* the k-th positional index in list order
NthPositional(k) ==
    CHOOSE i \in PositionalIdx : Cardinality({j \in PositionalIdx : j < i}) = k - 1

\* named parameters as claimed: the value of the (last) token of that key
KwargsAsClaimed ==
    /\ DOMAIN bKwargs = {KeyOf(bArgs[i]) : i \in NamedIdx}
    /\ \A i \in NamedIdx :
           (\A j \in NamedIdx : j > i => KeyOf(bArgs[j]) # KeyOf(bArgs[i]))
               => bKwargs[KeyOf(bArgs[i])] = ValueOf(bArgs[i])

ExampleArgs == <<sPort \o <<EQ>> \o s8080, sExtra>>

ExampleBound ==
    (bArgs = ExampleArgs /\ sPort \in bParams)
        => bKwargs = (sPort :> s8080) /\ bPositional = <<sExtra>>

\* C5 as stated: a token whose key is a declared parameter is bound by name,
\* every other token is passed whole as a positional argument, in list order.
C5_WholeTokenPositional ==
    bDone =>
        /\ KwargsAsClaimed
        /\ Len(bPositional) = Cardinality(PositionalIdx)
        /\ \A k \in 1..Len(bPositional) : bPositional[k] = bArgs[NthPositional(k)]
        /\ ExampleBound

\* C5 amended: a token whose key is a declared parameter is bound by name
\* (value unchanged), every other token is passed as a positional argument
\* with its leading and trailing whitespace stripped, in list order.
C5_StrippedTokenPositional ==
    bDone =>
        /\ KwargsAsClaimed
        /\ Len(bPositional) = Cardinality(PositionalIdx)
        /\ \A k \in 1..Len(bPositional) : bPositional[k] = Strip(bArgs[NthPositional(k)])
        /\ ExampleBound

\* the example of the claim has been bound
C5_Witness ==
    /\ bDone
    /\ bArgs = ExampleArgs
    /\ bParams = {sSelf, sPort}
    /\ bKwargs = (sPort :> s8080)
    /\ bPositional = <<sExtra>>

(***************************************************************************)
(* The pipeline: ModuleRunner.run (module.py 133-154) over Module.run      *)
(* (242-265).                                                              *)
(***************************************************************************)
\* line 141: the names the loop skips
Reserved == {sSetup, sRun, sUrl, sVersion, sTeardown}

\* Operation.__init__ (326-331): the state of a new Operation is the class default
Operation(command, args) == [command |-> command, args |-> args, state |-> "NotRun"]

\* Module._process_environment (235-240): the command and every argument are
\* rewritten in place
_process_environment(operation, host, env) ==
    [operation EXCEPT
        !.command = ProcessString(operation.command, host, env),
        !.args = [i \in 1..Len(operation.args) |-> ProcessString(operation.args[i], host, env)]]

\* attributes getattr finds on an instance through its class: the methods of
\* Module (178-265) and of Dummy (387-395)
ClassMethods == {sSetup, sTeardown, sRun, sGetenv, sDump}

\* ShellModule._discover (349-363): the names table of a script that defines
\* the functions setup and dump; a name is a whitespace-free token of a line
ScriptNames == {sSetup, sDump}

\* line 245 and ShellModule.__getattr__ (341-347): whether the command names
\* something the instance can call.  A class attribute is found first; a
\* ShellModule answers every other name with a wrapper that raises unless the
\* name is in its table.
Resolves(k, command) ==
    \/ command \in ClassMethods
    \/ k = "shell" /\ command \in ScriptNames

\* line 260 and line 263: the state Module.run leaves on the operation
OperationPassed(operation) == [operation EXCEPT !.state = "Passed"]
OperationError(operation) == [operation EXCEPT !.state = "Error"]

\* a slip of line 152: the exception is swallowed and the loop goes on
ContinueAfterError(i) == [pc |-> "loop", idx |-> i + 1]

\* line 152: raise e leaves the loop and run()
RaiseAfterError(i) == [pc |-> "raised", idx |-> i]

\* a slip of the constructor: a new run starts from fresh operation states
ResetStates(operations) ==
    [i \in 1..Len(operations) |-> [operations[i] EXCEPT !.state = "NotRun"]]

\* the operations a new run starts from: nothing resets them (138-140)
OperationsAtRun(operations) == operations

\* Inputs: the operation lists, the kinds of module and the environments
OpChoices == { Operation(sDump, <<sVarC, <<"x">>>>),
               Operation(sSetup, <<>>),
               Operation(sVarC, <<>>),
               Operation(sNoSuch, <<>>) }

OpLists == UNION {[1..k -> OpChoices] : k \in 0..MaxOps}

Kinds == {"native", "shell"}

\* (os.environ, module environment): C names a reserved command in the host
\* environment, a supported one in the module environment, or nothing
EnvPairs == { <<(<<"C">> :> sSetup), EmptyDict>>,
              <<EmptyDict, (<<"C">> :> sDump)>>,
              <<EmptyDict, EmptyDict>> }

InitRun ==
    /\ ops \in OpLists
    /\ kind \in Kinds
    /\ \E e \in EnvPairs : hostEnv = e[1] /\ modEnv = e[2]
    /\ pc = "idle"
    /\ idx = 1
    /\ runnerState = "Processing"
    /\ moduleState = "NotRun"
    /\ dispatched = <<>>
    /\ invoked = {}
    /\ teardowns = 0
    /\ failure = "none"
    /\ runs = 0
    /\ startStates = <<>>
    /\ SubstIdle
    /\ BindIdle
    /\ ArtIdle
    /\ LaterIdle

\* ModuleRunner(module).run(): the constructor (134-136) sets the runner's
\* state, run() begins (138)
CallRun ==
    /\ pc \in {"idle", "done", "raised"}
    /\ runs < MaxRuns
    /\ pc' = "setup"
    /\ runs' = runs + 1
    /\ runnerState' = "Processing"
    /\ ops' = OperationsAtRun(ops)
    /\ startStates' = [i \in 1..Len(ops) |-> ops'[i].state]
    /\ idx' = 1
    /\ dispatched' = <<>>
    /\ teardowns' = 0
    /\ failure' = "none"
    /\ UNCHANGED <<kind, hostEnv, modEnv, moduleState, invoked, substVars, bindVars, artVars, laterVars>>

\* line 139: setup() returns
SetupReturns ==
    /\ pc = "setup"
    /\ pc' = "loop"
    /\ UNCHANGED <<ops, kind, hostEnv, modEnv, idx, runnerState, moduleState, dispatched,
                   invoked, teardowns, failure, runs, startStates, substVars, bindVars, artVars, laterVars>>

\* line 139: setup() raises; nothing catches it
SetupRaises ==
    /\ pc = "setup"
    /\ pc' = "raised"
    /\ failure' = "setup"
    /\ UNCHANGED <<ops, kind, hostEnv, modEnv, idx, runnerState, moduleState, dispatched,
                   invoked, teardowns, runs, startStates, substVars, bindVars, artVars, laterVars>>

\* lines 141-142: a reserved command is skipped
SkipReserved ==
    /\ pc = "loop"
    /\ idx <= Len(ops)
    /\ ops[idx].command \in Reserved
    /\ idx' = idx + 1
    /\ UNCHANGED <<ops, kind, hostEnv, modEnv, pc, runnerState, moduleState, dispatched,
                   invoked, teardowns, failure, runs, startStates, substVars, bindVars, artVars, laterVars>>

\* lines 143-147 and 243-260: the operation is substituted, dispatched, and the
\* capability returns
OperationPasses ==
    /\ pc = "loop"
    /\ idx <= Len(ops)
    /\ ops[idx].command \notin Reserved
    /\ LET operation == _process_environment(ops[idx], hostEnv, modEnv)
       IN /\ Resolves(kind, operation.command)
          /\ ops' = [ops EXCEPT ![idx] = OperationPassed(operation)]
          /\ invoked' = invoked \cup {operation.command}
    /\ dispatched' = Append(dispatched, idx)
    /\ runnerState' = "Passed"
    /\ idx' = idx + 1
    /\ UNCHANGED <<kind, hostEnv, modEnv, pc, moduleState, teardowns, failure, runs,
                   startStates, substVars, bindVars, artVars, laterVars>>

\* lines 143-152 and 243-265: the operation is substituted and dispatched; the
\* command names nothing callable, or the capability raises
OperationFails ==
    /\ pc = "loop"
    /\ idx <= Len(ops)
    /\ ops[idx].command \notin Reserved
    /\ LET operation == _process_environment(ops[idx], hostEnv, modEnv)
       IN /\ \/ ~Resolves(kind, operation.command) /\ invoked' = invoked
             \/ Resolves(kind, operation.command) /\ invoked' = invoked \cup {operation.command}
          /\ ops' = [ops EXCEPT ![idx] = OperationError(operation)]
    /\ dispatched' = Append(dispatched, idx)
    /\ moduleState' = "Error"
    /\ runnerState' = "Error"
    /\ failure' = "operation"
    /\ pc' = RaiseAfterError(idx).pc
    /\ idx' = RaiseAfterError(idx).idx
    /\ UNCHANGED <<kind, hostEnv, modEnv, teardowns, runs, startStates, substVars, bindVars, artVars, laterVars>>

\* lines 153-154: the loop is over, teardown() returns
TeardownReturns ==
    /\ pc = "loop"
    /\ idx > Len(ops)
    /\ teardowns' = teardowns + 1
    /\ runnerState' = "Passed"
    /\ pc' = "done"
    /\ UNCHANGED <<ops, kind, hostEnv, modEnv, idx, moduleState, dispatched, invoked,
                   failure, runs, startStates, substVars, bindVars, artVars, laterVars>>

\* line 153: the loop is over, teardown() raises; nothing catches it
TeardownRaises ==
    /\ pc = "loop"
    /\ idx > Len(ops)
    /\ teardowns' = teardowns + 1
    /\ failure' = "teardown"
    /\ pc' = "raised"
    /\ UNCHANGED <<ops, kind, hostEnv, modEnv, idx, runnerState, moduleState, dispatched,
                   invoked, runs, startStates, substVars, bindVars, artVars, laterVars>>

NextRun ==
    \/ CallRun
    \/ SetupReturns
    \/ SetupRaises
    \/ SkipReserved
    \/ OperationPasses
    \/ OperationFails
    \/ TeardownReturns
    \/ TeardownRaises

SpecRun == InitRun /\ [][NextRun]_vars

(***************************************************************************)
(* Claims about the pipeline.                                              *)
(***************************************************************************)
Range(seq) == {seq[i] : i \in 1..Len(seq)}

\* the indices up to i whose command the loop does not skip
NonReservedUpTo(i) == {j \in 1..i : j <= Len(ops) /\ ops[j].command \notin Reserved}

\* seq lists exactly the members of S, in increasing order
ListsInOrder(seq, S) ==
    /\ Range(seq) = S
    /\ \A a, b \in 1..Len(seq) : a < b => seq[a] < seq[b]

\* C1: when setup succeeds and the first failing non-reserved operation is at
\* index i, the non-reserved operations before i were dispatched in list order
\* and are Passed, operation i is Error, nothing after i was dispatched (its
\* state is what it was when the run began, NotRun on a first run), module and
\* runner state are Error, teardown was not called and run() was left by the
\* exception.
C1_FirstFailureStopsPipeline ==
    failure = "operation" =>
        /\ pc = "raised"
        /\ idx \in 1..Len(ops)
        /\ ops[idx].state = "Error"
        /\ \A j \in NonReservedUpTo(idx - 1) : ops[j].state = "Passed"
        /\ ListsInOrder(dispatched, NonReservedUpTo(idx))
        /\ \A j \in (idx + 1)..Len(ops) :
               /\ ops[j].state = startStates[j]
               /\ runs = 1 => ops[j].state = "NotRun"
        /\ moduleState = "Error"
        /\ runnerState = "Error"
        /\ teardowns = 0

\* the list [A, B, C] where A passed and B failed: C was left alone
C1_Witness ==
    /\ failure = "operation"
    /\ pc = "raised"
    /\ Len(ops) = 3
    /\ idx = 2
    /\ dispatched = <<1, 2>>
    /\ ops[1].state = "Passed"
    /\ ops[2].state = "Error"
    /\ ops[3].state = "NotRun"
    /\ ops[3].command \notin Reserved

\* C2: when setup() fails the failure propagates at once, the lifecycle state
\* becomes Error, no operation is dispatched and teardown is not called.
C2_SetupFailureIsError ==
    failure = "setup" =>
        /\ pc = "raised"
        /\ runnerState = "Error"
        /\ dispatched = <<>>
        /\ teardowns = 0

\* C3: the lifecycle state is Passed only once setup, every non-reserved
\* operation and teardown of the run have completed without failure; it is
\* never Passed while an operation or teardown of the run is pending or failed.
C3_PassedOnlyWhenComplete ==
    /\ runnerState = "Passed" =>
           /\ pc = "done"
           /\ failure = "none"
           /\ teardowns = 1
           /\ \A j \in NonReservedUpTo(Len(ops)) : ops[j].state = "Passed"
    /\ pc = "done" => runnerState = "Passed"

\* C6: no reserved name is ever handed to Module.run or called as a
\* capability, whatever the operation list, the environments and the module.
C6_ReservedNeverDispatched ==
    /\ \A c \in invoked : c \notin Reserved
    /\ \A j \in Range(dispatched) : ops[j].command \notin Reserved

\* a script module that defines setup: the operation "setup" was skipped, and
\* a command that substitution turned into "setup " was dispatched and refused
C6_Witness ==
    /\ kind = "shell"
    /\ sSetup \in ScriptNames
    /\ \E j, k \in 1..Len(ops) :
           /\ k < j
           /\ ops[k].command = sSetup
           /\ ops[k].state = "NotRun"
           /\ j \in Range(dispatched)
           /\ ops[j].command = sSetup \o <<SP>>
           /\ ops[j].state = "Error"

\* C7 as stated: once an operation's state is Passed or Error no later step,
\* of this run or of another run on the same module, changes it.
C7_StateNeverChanges ==
    [][\A j \in 1..Len(ops) :
           ops[j].state # "NotRun" => ops'[j].state = ops[j].state]_vars

\* C7 amended: an operation's state never returns to NotRun, and a run changes
\* it at most once, when it dispatches the operation; a later run dispatches
\* the operation again and may replace Passed by Error or Error by Passed.
C7_StateNeverReset ==
    [][\A j \in 1..Len(ops) :
           /\ ops[j].state # "NotRun" => ops'[j].state # "NotRun"
           /\ ops'[j].state # ops[j].state =>
                  /\ j \notin Range(dispatched)
                  /\ j \in Range(dispatched')
                  /\ ops'[j].state \in {"Passed", "Error"}]_vars

\* a second run has replaced a Passed by an Error
C7_Witness ==
    /\ runs = 2
    /\ \E j \in 1..Len(ops) :
           /\ startStates[j] = "Passed"
           /\ ops[j].state = "Error"

(***************************************************************************)
(* Artifacts: CctArtifact (module.py 268-307), Module._get_artifacts       *)
(* (217-221), Module.__init__ (160-176), ShellModule._run_function         *)
(* (372-381).                                                              *)
(***************************************************************************)
COLON == ":"
sMd5 == <<"m", "d", "5">>
sSha1 == <<"s", "h", "a", "1">>

\* the constructors hashlib offers (line 301: getattr(hashlib, ...))
HashAlgs == {sMd5, sSha1}

\* what a file can hold
Bytes == {"b0", "b1"}

\* hash.hexdigest() (302-305): lower-case hex, one digest per algorithm and content
Hexdigest(alg, content) ==
    IF alg = sMd5
    THEN (IF content = "b0" THEN <<"a", "0">> ELSE <<"a", "1">>)
    ELSE (IF content = "b0" THEN <<"c", "0">> ELSE <<"c", "1">>)

\* os.path.join(directory, self.filename) (line 282)
PathJoin(directory, filename) == <<directory, filename>>

\* CctArtifact.check_sum (298-307): "true", "false", or "raise" when the
\* checksum-spec has no ":" (ValueError) or names no hashlib constructor
\* (AttributeError); a missing file is answered before the spec is read
check_sum(fsys, path, chksum) ==
    IF fsys[path] = "absent" THEN "false"
    ELSE IF ~Contains(chksum, COLON) THEN "raise"
    ELSE LET alg == SubSeq(chksum, 1, IndexOf(chksum, COLON) - 1)
             hex == SubSeq(chksum, IndexOf(chksum, COLON) + 1, Len(chksum))
         IN IF alg \notin HashAlgs THEN "raise"
            ELSE IF hex = Hexdigest(alg, fsys[path]) THEN "true"
            ELSE "false"

\* lines 295-296 after a download that returned
AfterDownload(c) ==
    IF c = "true" THEN "fetched"
    ELSE IF c = "false" THEN "integrity_error"
    ELSE "chksum_error"

\* urlretrieve(self.url, self.path) (291): it returns having written what the
\* server sent, or raises, leaving the path as it was or partly written
Retrieved(fsys, path) == {[fsys EXCEPT ![path] = b] : b \in Bytes}
RetrieveFailed(fsys, path) == {fsys} \cup Retrieved(fsys, path)

\* a slip of fetch: the cache check is skipped and the file is always downloaded
fetchAlways(fsys, path, chksum) ==
    {[fs |-> f, downloads |-> 1, outcome |-> "download_error"] : f \in RetrieveFailed(fsys, path)}
    \cup {[fs |-> f, downloads |-> 1, outcome |-> AfterDownload(check_sum(f, path, chksum))]
            : f \in Retrieved(fsys, path)}

\* a slip of fetch: a mismatch after the download is answered by a second download
fetchRetry(fsys, path, chksum) ==
    IF check_sum(fsys, path, chksum) = "true"
    THEN {[fs |-> fsys, downloads |-> 0, outcome |-> "cached"]}
    ELSE {[fs |-> g, downloads |-> 2, outcome |-> AfterDownload(check_sum(g, path, chksum))]
            : g \in Retrieved(fsys, path)}

\* a slip of fetch: the downloaded file is not checked
fetchUnchecked(fsys, path, chksum) ==
    IF check_sum(fsys, path, chksum) = "true"
    THEN {[fs |-> fsys, downloads |-> 0, outcome |-> "cached"]}
    ELSE {[fs |-> f, downloads |-> 1, outcome |-> "fetched"] : f \in Retrieved(fsys, path)}

\* CctArtifact.fetch (281-296): every way one call can end: the file system it
\* leaves, the calls of urlretrieve it made, and how it ended ("cached" and
\* "fetched" return, the others raise)
fetch(fsys, path, chksum) ==
    LET c == check_sum(fsys, path, chksum)
    IN IF c = "true" THEN {[fs |-> fsys, downloads |-> 0, outcome |-> "cached"]}
       ELSE IF c = "raise" THEN {[fs |-> fsys, downloads |-> 0, outcome |-> "chksum_error"]}
       ELSE {[fs |-> f, downloads |-> 1, outcome |-> "download_error"]
                : f \in RetrieveFailed(fsys, path)}
            \cup {[fs |-> f, downloads |-> 1,
                   outcome |-> AfterDownload(check_sum(f, path, chksum))]
                    : f \in Retrieved(fsys, path)}

Returned(outcome) == outcome \in {"cached", "fetched"}

\* CctArtifact.__init__ (274-279) and line 282: the artifact once fetch set its path
CctArtifact(name, chksum, directory) ==
    [name |-> name, chksum |-> chksum, path |-> PathJoin(directory, name)]

\* line 221: self.artifacts[cct_artifact.name] = cct_artifact
Register(mapping, artifact) ==
    [n \in DOMAIN mapping \cup {artifact.name} |->
        IF n = artifact.name THEN artifact ELSE mapping[n]]

\* str.upper() on the names of the model
UpperChar(c) == IF c = "a" THEN "A" ELSE IF c = "b" THEN "B" ELSE c
Upper(name) == [i \in 1..Len(name) |-> UpperChar(name[i])]

sArtifactPrefix == <<"C", "C", "T", "_", "A", "R", "T", "I", "F", "A", "C", "T", "_",
                     "P", "A", "T", "H", "_">>

\* lines 377-380: one variable per entry of self.artifacts
ArtifactEnv(mapping) ==
    [v \in {sArtifactPrefix \o Upper(n) : n \in DOMAIN mapping} |->
        mapping[CHOOSE n \in DOMAIN mapping : sArtifactPrefix \o Upper(n) = v].path]

\* line 220-221 of _get_artifacts: the mapping after a fetch that ended so
MappingAfter(mapping, artifact, outcome) ==
    IF Returned(outcome) THEN Register(mapping, artifact) ELSE mapping

\* Inputs: directories and the artifacts a manifest can declare
Dirs == {"d1", "d2"}
ArtNames == {<<"a">>, <<"b">>}

\* the names the manifest of a directory declares: two in d1, one of them in d2
NamesIn(d) == IF d = "d1" THEN ArtNames ELSE {<<"a">>}

Paths == {PathJoin(d, n) : d \in Dirs, n \in ArtNames} \ {PathJoin("d2", <<"b">>)}

\* checksum-specs: md5 of b0, sha1 of b1, and one that names no algorithm
Chksums == { sMd5 \o <<COLON, "a", "0">>,
             sSha1 \o <<COLON, "c", "1">>,
             <<"a", "0">> }

Declared(d) == [name : NamesIn(d), chksum : Chksums]

InitArt ==
    /\ fs \in [Paths -> Bytes \cup {"absent"}]
    /\ artifacts = EmptyDict
    /\ building = NotBuilding
    /\ constructs = 0
    /\ lastFetch = NoFetch
    /\ validated = {}
    /\ scriptEnv = EmptyDict
    /\ SubstIdle
    /\ BindIdle
    /\ RunIdle
    /\ LaterIdle

\* Module.__init__ (160-174) opens the manifest of its directory
BeginConstruct ==
    /\ ~building.active
    /\ constructs < MaxConstructs
    /\ \E d \in Dirs : building' = [dir |-> d, active |-> TRUE, done |-> 0]
    /\ constructs' = constructs + 1
    /\ UNCHANGED <<fs, artifacts, lastFetch, validated, scriptEnv,
                   substVars, bindVars, runVars, laterVars>>

\* what one call of fetch leaves behind
FetchRecord(artifact, before, r) ==
    [name |-> artifact.name, chksum |-> artifact.chksum, path |-> artifact.path,
     before |-> before, downloads |-> r.downloads, outcome |-> r.outcome]

\* one turn of the loop of _get_artifacts (218-221) on the next artifact the
\* manifest declares: fetch returns and the artifact is registered
FetchAndRegister ==
    /\ building.active
    /\ building.done < MaxArtifacts
    /\ \E decl \in Declared(building.dir) :
           LET artifact == CctArtifact(decl.name, decl.chksum, building.dir)
           IN \E r \in fetch(fs, artifact.path, artifact.chksum) :
                  /\ Returned(r.outcome)
                  /\ fs' = r.fs
                  /\ lastFetch' = FetchRecord(artifact, fs[artifact.path], r)
                  /\ artifacts' = MappingAfter(artifacts, artifact, r.outcome)
                  /\ validated' =
                         IF check_sum(r.fs, artifact.path, artifact.chksum) = "true"
                         THEN validated \cup {artifact} ELSE validated
    /\ building' = [building EXCEPT !.done = @ + 1]
    /\ UNCHANGED <<constructs, scriptEnv, substVars, bindVars, runVars, laterVars>>

\* one turn of the loop of _get_artifacts: fetch raises, the loop is left and
\* Module.__init__ logs the exception (175-176)
FetchFails ==
    /\ building.active
    /\ building.done < MaxArtifacts
    /\ \E decl \in Declared(building.dir) :
           LET artifact == CctArtifact(decl.name, decl.chksum, building.dir)
           IN \E r \in fetch(fs, artifact.path, artifact.chksum) :
                  /\ ~Returned(r.outcome)
                  /\ fs' = r.fs
                  /\ lastFetch' = FetchRecord(artifact, fs[artifact.path], r)
                  /\ artifacts' = MappingAfter(artifacts, artifact, r.outcome)
    /\ building' = NotBuilding
    /\ UNCHANGED <<validated, constructs, scriptEnv, substVars, bindVars, runVars, laterVars>>

\* the manifest declares no further artifact: Module.__init__ returns
EndConstruct ==
    /\ building.active
    /\ building' = NotBuilding
    /\ UNCHANGED <<fs, artifacts, constructs, lastFetch, validated, scriptEnv,
                   substVars, bindVars, runVars, laterVars>>

\* ShellModule._run_function (372-381) builds the environment of the script
RunFunction ==
    /\ ~building.active
    /\ constructs > 0
    /\ scriptEnv' = ArtifactEnv(artifacts)
    /\ UNCHANGED <<fs, artifacts, building, constructs, lastFetch, validated,
                   substVars, bindVars, runVars, laterVars>>

NextArt ==
    \/ BeginConstruct
    \/ FetchAndRegister
    \/ FetchFails
    \/ EndConstruct
    \/ RunFunction

SpecArt == InitArt /\ [][NextArt]_vars

(***************************************************************************)
(* Claims about artifacts.                                                 *)
(***************************************************************************)
\* the checksum-spec names an algorithm and the digest of the content under it
DigestMatches(content, chksum) ==
    /\ content # "absent"
    /\ \E alg \in HashAlgs : chksum = alg \o <<COLON>> \o Hexdigest(alg, content)

\* the checksum-spec is "<algorithm>:<hexdigest>" for an algorithm there is
WellFormed(chksum) ==
    \E alg \in HashAlgs : \E i \in 1..Len(chksum) :
        /\ chksum[i] = COLON
        /\ SubSeq(chksum, 1, i - 1) = alg

\* C8: a fetch that finds at <directory>/<name> a file whose digest, under the
\* algorithm the checksum-spec names, is the declared one downloads nothing,
\* returns, and leaves the file as it was.
C8_CachedFetchDoesNotDownload ==
    (lastFetch.outcome # "none" /\ DigestMatches(lastFetch.before, lastFetch.chksum)) =>
        /\ lastFetch.downloads = 0
        /\ lastFetch.outcome = "cached"
        /\ fs[lastFetch.path] = lastFetch.before

\* a cache hit under each algorithm
C8_Witness ==
    /\ lastFetch.outcome = "cached"
    /\ lastFetch.chksum = sSha1 \o <<COLON, "c", "1">>
    /\ lastFetch.before = "b1"
    /\ lastFetch.name \in DOMAIN artifacts

\* the last fetch found no file: it called urlretrieve once, and if that
\* returned and the file does not match, the fetch ended in the integrity error
DownloadedOnce ==
    (lastFetch.outcome # "none" /\ lastFetch.before = "absent") =>
        /\ lastFetch.downloads = 1
        /\ (/\ lastFetch.outcome # "download_error"
            /\ WellFormed(lastFetch.chksum)
            /\ ~DigestMatches(fs[lastFetch.path], lastFetch.chksum))
               => lastFetch.outcome = "integrity_error"

\* C9: a fetch that finds no file downloads exactly once; if the digest of what
\* was downloaded is not the declared one the fetch fails with the integrity
\* error and the step leaves the artifact mapping as it was.
C9_OneDownloadThenIntegrityError ==
    [][/\ DownloadedOnce'
       /\ lastFetch'.outcome = "integrity_error" => artifacts' = artifacts]_vars

\* no file, one download, a mismatch: the artifact is not in the mapping
C9_Witness ==
    /\ lastFetch.before = "absent"
    /\ lastFetch.downloads = 1
    /\ lastFetch.outcome = "integrity_error"
    /\ fs[lastFetch.path] # "absent"
    /\ lastFetch.name \notin DOMAIN artifacts

\* C10: every artifact in the mapping, and every artifact path exported to a
\* script, belongs to an artifact whose file matched its declared checksum when
\* the fetch before its registration ended.
C10_RegisteredWasValidated ==
    /\ \A n \in DOMAIN artifacts : artifacts[n] \in validated
    /\ \A v \in DOMAIN scriptEnv :
           \E a \in validated : v = sArtifactPrefix \o Upper(a.name) /\ scriptEnv[v] = a.path

\* a downloaded artifact is exported while another one, never valid, is absent
C10_Witness ==
    /\ lastFetch.outcome \in {"integrity_error", "chksum_error"}
    /\ lastFetch.name \notin DOMAIN artifacts
    /\ \E n \in DOMAIN artifacts :
           /\ artifacts[n] \in validated
           /\ sArtifactPrefix \o Upper(n) \in DOMAIN scriptEnv
           /\ scriptEnv[sArtifactPrefix \o Upper(n)] = artifacts[n].path

(***************************************************************************)
(* Construction of modules: Module.__init__ run to its end, and the object *)
(* stored by the caller of the constructor.                                *)
(***************************************************************************)
\* what the module.yaml of a directory can list under 'artifacts': each
\* declared name at most once
ManifestsOf(d) ==
    {m \in UNION {[1..n -> Declared(d)] : n \in 0..MaxArtifacts} :
        \A i, j \in 1..Len(m) : i # j => m[i].name # m[j].name}

DeclaredNames(manifest) == {manifest[i].name : i \in 1..Len(manifest)}

\* Module._get_artifacts (217-221), the whole loop: the ways it can end, each
\* with the file system and the mapping it leaves and whether fetch raised
RECURSIVE _get_artifacts(_, _, _, _)
_get_artifacts(fsys, mapping, declared, destination) ==
    IF declared = <<>>
    THEN {[fs |-> fsys, artifacts |-> mapping, raised |-> FALSE]}
    ELSE LET artifact == CctArtifact(Head(declared).name, Head(declared).chksum,
                                     destination)
         IN UNION {IF Returned(r.outcome)
                   THEN _get_artifacts(r.fs, MappingAfter(mapping, artifact, r.outcome),
                                       Tail(declared), destination)
                   ELSE {[fs |-> r.fs,
                          artifacts |-> MappingAfter(mapping, artifact, r.outcome),
                          raised |-> TRUE]}
                   : r \in fetch(fsys, artifact.path, artifact.chksum)}

\* Module.__init__ (160-176) with a directory: the ways it can end.  The
\* 'except Exception' of lines 175-176 encloses _get_artifacts and only logs,
\* so an exception of fetch is caught there and none leaves the constructor
Module_init(fsys, mapping, manifest, directory) ==
    {[fs |-> g.fs, artifacts |-> g.artifacts, caught |-> g.raised, raises |-> FALSE] :
        g \in _get_artifacts(fsys, mapping, manifest, directory)}

\* the object a constructor call returned; Module.artifacts is an attribute of
\* the class (line 158) and line 221 stores into it through self, so the
\* object holds no mapping of its own
ModuleObject(directory, manifest, caught) ==
    [directory |-> directory, declared |-> DeclaredNames(manifest), caught |-> caught]

\* self.artifacts as read through the object instances[i] (lines 221, 377)
ArtifactsOf(i) == artifacts

InitCons ==
    /\ fs \in [Paths -> Bytes \cup {"absent"}]
    /\ tree \in {t \in [Dirs -> UNION {ManifestsOf(d) : d \in Dirs}] :
                    \A d \in Dirs : t[d] \in ManifestsOf(d)}
    /\ artifacts = EmptyDict
    /\ instances = <<>>
    /\ initRaised = FALSE
    /\ constructs = 0
    /\ scriptEnv = EmptyDict
    /\ building = NotBuilding /\ lastFetch = NoFetch /\ validated = {}
    /\ stack = <<>> /\ modules = EmptyDict /\ installs = <<>>
    /\ swallowed = {} /\ walked = {} /\ dpc = "idle"
    /\ SubstIdle /\ BindIdle /\ RunIdle
    /\ GetIdle /\ IntroIdle /\ JbossIdle

\* check_module_sh (101-105): ShellModule(name, directory, path) is built, and
\* if the constructor returns the object is stored in self.modules
Construct ==
    /\ constructs < MaxConstructs
    /\ \E d \in Dirs : \E r \in Module_init(fs, artifacts, tree[d], d) :
           /\ fs' = r.fs
           /\ artifacts' = r.artifacts
           /\ initRaised' = r.raises
           /\ instances' = IF r.raises THEN instances
                           ELSE Append(instances, ModuleObject(d, tree[d], r.caught))
    /\ constructs' = constructs + 1
    /\ UNCHANGED <<scriptEnv, building, lastFetch, validated, tree, stack, modules,
                   installs, swallowed, walked, dpc, substVars, bindVars, runVars,
                   getVars, introVars, jbossVars>>

\* ShellModule._run_function (372-381) called on one of the objects
RunFunctionOf ==
    /\ \E i \in 1..Len(instances) : scriptEnv' = ArtifactEnv(ArtifactsOf(i))
    /\ scriptEnv' # scriptEnv
    /\ UNCHANGED <<fs, artifacts, instances, initRaised, constructs, building,
                   lastFetch, validated, tree, stack, modules, installs, swallowed,
                   walked, dpc, substVars, bindVars, runVars, getVars, introVars,
                   jbossVars>>

NextCons ==
    \/ Construct
    \/ RunFunctionOf

SpecCons == InitCons /\ [][NextCons]_vars

\* C11: a constructor call during which the fetch of a declared artifact
\* failed (download or validation) raises to its caller and leaves no module
\* object behind.
C11_FailedArtifactFailsConstruction ==
    \A i \in 1..Len(instances) : ~instances[i].caught

\* C19: the artifact mapping a module object sees, and the artifact variables
\* exported when one of its functions runs, name only artifacts that the
\* manifest of that module's own directory declares.
C19_OwnArtifactsOnly ==
    \A i \in 1..Len(instances) :
        /\ DOMAIN ArtifactsOf(i) \subseteq instances[i].declared
        /\ \A n \in DOMAIN ArtifactsOf(i) :
               ArtifactsOf(i)[n].path = PathJoin(instances[i].directory, n)

(***************************************************************************)
(* Discovery: ModuleManager.discover_modules, install_module,              *)
(* process_module_deps and find_modules.                                   *)
(***************************************************************************)
SLASH == "/"
DOT == "."
sBash == <<"b", "a", "s", "h">>
sPython == <<"p", "y", "t", "h", "o", "n">>
sGit == <<"g", "i", "t">>
sCctModule == <<"c", "c", "t", ".", "m", "o", "d", "u", "l", "e", ".">>
sBaseDummy == <<"b", "a", "s", "e", ".", "D", "u", "m", "m", "y">>
\* the value None where the model needs it next to strings
None == <<"None">>

\* sub in s, for strings
SubstringOf(sub, s) ==
    \E i \in 0..(Len(s) - Len(sub)) : SubSeq(s, i + 1, i + Len(sub)) = sub

\* s.endswith(suffix)
EndsWith(s, suffix) ==
    Len(s) >= Len(suffix) /\ SubSeq(s, Len(s) - Len(suffix) + 1, Len(s)) = suffix

\* s[:-n]
DropLast(s, n) == IF Len(s) > n THEN SubSeq(s, 1, Len(s) - n) ELSE <<>>

\* s.split(sep)[-1]: what follows the last sep, or all of s when it has none
LastOfSplit(s, sep) ==
    LET cuts == {i \in 1..Len(s) : s[i] = sep}
    IN IF cuts = {} THEN s
       ELSE SubSeq(s, (CHOOSE i \in cuts : \A j \in cuts : j <= i) + 1, Len(s))

\* os.path.basename(path), and path.split('/')[-1]
Basename(path) == LastOfSplit(path, SLASH)

\* install_module, lines 58-60: where a dependency is cloned
RepoDir(directory, url) ==
    LET repo_dir == directory \o <<SLASH>> \o Basename(url)
    IN IF EndsWith(repo_dir, sGit) THEN DropLast(repo_dir, 4) ELSE repo_dir

\* lines 89 and 102: module_name
ModuleName(directory) == sCctModule \o Basename(directory)

\* line 104: the key of a script
ShellKey(directory, file) ==
    LastOfSplit(ModuleName(directory), DOT) \o <<DOT>> \o DropLast(file, 3)

\* line 99: the key of a class
NativeKey(directory, cls) ==
    LastOfSplit(ModuleName(directory), DOT) \o <<DOT>> \o cls

\* Inputs: self.directory, the module directories in it, two repositories
RootDir == <<"w">>
dirM == RootDir \o <<SLASH, "m">>
dirAB == RootDir \o <<SLASH, "a", ".", "b">>
url1 == <<"h", SLASH, "r", ".", "g", "i", "t">>
url2 == <<"h", SLASH, "s">>
InitialDirs == {dirM, dirAB}
RepoDirs == {RepoDir(RootDir, url1), RepoDir(RootDir, url2)}

\* entries of 'deps': one with a version, one without
Dep1 == [url |-> url1, version |-> <<"v", "1">>]
Dep2 == [url |-> url2]

\* the *.sh files of a directory and the Module subclasses its *.py files define
ScriptsIn(directory) ==
    IF directory = dirM THEN << <<"x", ".", "s", "h">>, <<"y", ".", "s", "h">> >>
    ELSE << <<"x", ".", "s", "h">> >>
ClassesIn(directory) == << <<"X">> >>

\* what yaml.load returns for a module.yaml, or that it (or open) raised
Unparsable == [parses |-> FALSE, deps |-> <<>>, language |-> <<>>]
Manifest(deps, language) == [parses |-> TRUE, deps |-> deps, language |-> language]

ManifestsIn(directory) ==
    {Unparsable} \cup
    IF directory = dirM
    THEN {Manifest(deps, l) : deps \in {<<>>, <<Dep1>>, <<Dep1, Dep2>>},
                              l \in {sBash, sPython}}
    ELSE IF directory = dirAB THEN {Manifest(<<>>, sBash)}
    ELSE IF directory = RepoDir(RootDir, url1)
    THEN {Manifest(deps, sBash) : deps \in {<<>>, <<Dep2>>, <<Dep1>>}}
    ELSE {Manifest(deps, sPython) : deps \in {<<>>, <<Dep1>>}}

\* the trees: dirM and the repositories always hold a manifest, dirAB may not exist
Trees ==
    {t \in UNION {[D -> UNION {ManifestsIn(d) : d \in D}] :
                     D \in {{dirM} \cup RepoDirs, InitialDirs \cup RepoDirs}} :
        \A d \in DOMAIN t : t[d] \in ManifestsIn(d)}

\* whether a directory is on disk: there from the start, or cloned since
OnDisk(d, log) ==
    \/ d \in InitialDirs \cap DOMAIN tree
    \/ \E i \in 1..Len(log) : log[i].ok /\ log[i].repo_dir = d

\* d is directory or lies below it
Under(d, directory) ==
    \/ d = directory
    \/ /\ Len(d) > Len(directory)
       /\ SubSeq(d, 1, Len(directory) + 1) = directory \o <<SLASH>>

Perms(S) ==
    {q \in [1..Cardinality(S) -> S] :
        \A i, j \in 1..Cardinality(S) : q[i] = q[j] => i = j}

\* lines 42-45: module_dirs, in each order os.walk can list them
ModuleDirs(directory, log) ==
    Perms({d \in DOMAIN tree : OnDisk(d, log) /\ Under(d, directory)})

\* a call of discover_modules that has built module_dirs
Frame(module_dirs) == [dirs |-> module_dirs, cur |-> <<>>, deps |-> <<>>]

\* dependencies a cycle guard would leave out
DepsNotYetInstalled(deps, log) ==
    SelectSeq(deps, LAMBDA dep : \A i \in 1..Len(log) : log[i].url # dep.url)

\* line 66: process_module_deps goes through every entry of deps, whatever
\* was installed before
DepsToInstall(deps, log) == deps

\* line 68, 'version' in deps: deps is the list, and Python compares each of
\* its elements, a mapping, with the string
VersionInList(deps) == \E i \in 1..Len(deps) : deps[i] = [str |-> sVersion]

\* line 68: the version handed to install_module
VersionArg(dep, deps) == IF VersionInList(deps) THEN dep.version ELSE None

\* the version the entry declares
DeclaredVersion(dep) == IF "version" \in DOMAIN dep THEN dep.version ELSE None

\* lines 57-62: the call of clone_repo made for dep, and whether it returned
InstallCall(dep, deps, ok) ==
    [url |-> dep.url, version |-> VersionArg(dep, deps),
     declared |-> DeclaredVersion(dep),
     repo_dir |-> RepoDir(RootDir, dep.url), ok |-> ok]

\* a walk that an exception ends
AbortWalk(frame) == Frame(<<>>)

\* lines 54-55: the handler logs, and the loop goes on with the next mod_dir
AfterException(frame) == [frame EXCEPT !.cur = <<>>, !.deps = <<>>]

\* lines 79-86: the candidates of a directory with the key each gets
Candidates(directory, language) ==
    IF SubstringOf(sBash, language)
    THEN [i \in 1..Len(ScriptsIn(directory)) |->
             [key |-> ShellKey(directory, ScriptsIn(directory)[i]),
              impl |-> DropLast(ScriptsIn(directory)[i], 3),
              directory |-> directory, shell |-> TRUE]]
    ELSE [i \in 1..Len(ClassesIn(directory)) |->
             [key |-> NativeKey(directory, ClassesIn(directory)[i]),
              impl |-> ClassesIn(directory)[i],
              directory |-> directory, shell |-> FALSE]]

\* lines 99 and 105: self.modules[name] = ..., for the candidates in turn: of
\* the candidates with one key the last one stays
RegisterAll(mapping, candidates) ==
    LET keys == {candidates[i].key : i \in 1..Len(candidates)}
        LastWith(k) == CHOOSE i \in 1..Len(candidates) :
                           /\ candidates[i].key = k
                           /\ \A j \in (i + 1)..Len(candidates) : candidates[j].key # k
    IN [k \in DOMAIN mapping \cup keys |->
           IF k \in keys THEN candidates[LastWith(k)] ELSE mapping[k]]

Dummy == [key |-> sBaseDummy, impl |-> <<"D", "u", "m", "m", "y">>,
          directory |-> None, shell |-> FALSE]

InitDisc ==
    /\ tree \in Trees
    /\ stack = <<>>
    /\ modules = (sBaseDummy :> Dummy)
    /\ installs = <<>>
    /\ swallowed = {}
    /\ walked = {}
    /\ dpc = "idle"
    /\ SubstIdle /\ BindIdle /\ RunIdle /\ ArtIdle
    /\ ConsIdle /\ GetIdle /\ IntroIdle /\ JbossIdle

NotDisc == <<substVars, bindVars, runVars, artVars, consVars, getVars, introVars,
             jbossVars>>

\* discover_modules() is called on self.directory (40-45)
Discover ==
    /\ dpc = "idle"
    /\ \E module_dirs \in ModuleDirs(RootDir, installs) :
           stack' = <<Frame(module_dirs)>>
    /\ dpc' = "running"
    /\ UNCHANGED <<tree, modules, installs, swallowed, walked, NotDisc>>

\* lines 47-51: the next mod_dir, whose module.yaml loads
ManifestLoads ==
    /\ stack # <<>>
    /\ LET top == Head(stack)
       IN /\ top.cur = <<>> /\ top.dirs # <<>>
          /\ tree[Head(top.dirs)].parses
          /\ stack' = <<[dirs |-> Tail(top.dirs), cur |-> Head(top.dirs),
                         deps |-> DepsToInstall(tree[Head(top.dirs)].deps, installs)]>>
                      \o Tail(stack)
          /\ walked' = walked \cup {Head(top.dirs)}
    /\ UNCHANGED <<tree, modules, installs, swallowed, dpc, NotDisc>>

\* lines 47-50 and 54-55: the next mod_dir, whose module.yaml does not load
ManifestFails ==
    /\ stack # <<>>
    /\ LET top == Head(stack)
       IN /\ top.cur = <<>> /\ top.dirs # <<>>
          /\ ~tree[Head(top.dirs)].parses
          /\ stack' = <<AfterException([top EXCEPT !.dirs = Tail(@)])>> \o Tail(stack)
          /\ walked' = walked \cup {Head(top.dirs)}
          /\ swallowed' = swallowed \cup
                 {[directory |-> Head(top.dirs), what |-> "manifest"]}
    /\ UNCHANGED <<tree, modules, installs, dpc, NotDisc>>

\* lines 66-68 and 57-62: install_module for the next dependency; clone_repo
\* raises, and the exception leaves install_module and process_module_deps
\* and is caught at line 54, inside the discover_modules that read the manifest
CloneFails ==
    /\ stack # <<>>
    /\ LET top == Head(stack)
       IN /\ top.cur # <<>> /\ top.deps # <<>>
          /\ installs' = Append(installs,
                 InstallCall(Head(top.deps), tree[top.cur].deps, FALSE))
          /\ swallowed' = swallowed \cup
                 {[directory |-> top.cur, what |-> "dependency"]}
          /\ stack' = <<AfterException(top)>> \o Tail(stack)
    /\ UNCHANGED <<tree, modules, walked, dpc, NotDisc>>

\* lines 57-63: clone_repo returns and discover_modules(repo_dir) is entered
CloneAndDiscover ==
    /\ stack # <<>>
    /\ Len(stack) < RecursionLimit
    /\ LET top == Head(stack)
       IN /\ top.cur # <<>> /\ top.deps # <<>>
          /\ LET call == InstallCall(Head(top.deps), tree[top.cur].deps, TRUE)
             IN /\ installs' = Append(installs, call)
                /\ \E module_dirs \in ModuleDirs(call.repo_dir, Append(installs, call)) :
                       stack' = <<Frame(module_dirs), [top EXCEPT !.deps = Tail(@)]>>
                                \o Tail(stack)
    /\ UNCHANGED <<tree, modules, swallowed, walked, dpc, NotDisc>>

\* lines 57-63: clone_repo returns, but the calls are nested as deep as the
\* interpreter allows: the call of discover_modules raises, and line 54 of the
\* innermost discover_modules catches it
CloneThenRecursionError ==
    /\ stack # <<>>
    /\ Len(stack) >= RecursionLimit
    /\ LET top == Head(stack)
       IN /\ top.cur # <<>> /\ top.deps # <<>>
          /\ installs' = Append(installs,
                 InstallCall(Head(top.deps), tree[top.cur].deps, TRUE))
          /\ swallowed' = swallowed \cup
                 {[directory |-> top.cur, what |-> "recursion"]}
          /\ stack' = <<AfterException(top)>> \o Tail(stack)
    /\ UNCHANGED <<tree, modules, walked, dpc, NotDisc>>

\* line 53: find_modules registers every candidate of mod_dir
FindModules ==
    /\ stack # <<>>
    /\ LET top == Head(stack)
       IN /\ top.cur # <<>> /\ top.deps = <<>>
          /\ \E found \in {Candidates(top.cur, tree[top.cur].language)} :
                 modules' = RegisterAll(modules, found)
          /\ stack' = <<[top EXCEPT !.cur = <<>>]>> \o Tail(stack)
    /\ UNCHANGED <<tree, installs, swallowed, walked, dpc, NotDisc>>

\* line 53: loading a candidate raises (imp.load_source at line 91, or
\* ShellModule._discover at line 339); the candidates before it are registered
FindModulesRaises ==
    /\ stack # <<>>
    /\ LET top == Head(stack)
       IN /\ top.cur # <<>> /\ top.deps = <<>>
          /\ \E found \in {Candidates(top.cur, tree[top.cur].language)} :
                 \E n \in 0..(Len(found) - 1) :
                     modules' = RegisterAll(modules, SubSeq(found, 1, n))
          /\ swallowed' = swallowed \cup {[directory |-> top.cur, what |-> "load"]}
          /\ stack' = <<AfterException(top)>> \o Tail(stack)
    /\ UNCHANGED <<tree, installs, walked, dpc, NotDisc>>

\* the loop of line 47 is through: discover_modules returns
Return ==
    /\ stack # <<>>
    /\ Head(stack).cur = <<>> /\ Head(stack).dirs = <<>>
    /\ stack' = Tail(stack)
    /\ dpc' = IF Tail(stack) = <<>> THEN "done" ELSE dpc
    /\ UNCHANGED <<tree, modules, installs, swallowed, walked, NotDisc>>

NextDisc ==
    \/ Discover
    \/ ManifestLoads
    \/ ManifestFails
    \/ CloneFails
    \/ CloneAndDiscover
    \/ CloneThenRecursionError
    \/ FindModules
    \/ FindModulesRaises
    \/ Return

SpecDisc == InitDisc /\ [][NextDisc]_vars

\* the interpreter runs the call to its end
SpecDiscFair == SpecDisc /\ WF_vars(NextDisc)

(***************************************************************************)
(* Claims about discovery.                                                 *)
(***************************************************************************)
FailedClone == \E i \in 1..Len(installs) : ~installs[i].ok

\* C12: a clone_repo that fails during discovery aborts the enclosing
\* discover_modules call, which raises to its caller; the handler of
\* discover_modules swallows nothing but manifests that do not load.
C12_DependencyFailureIsFatal ==
    /\ FailedClone => (dpc = "raised" /\ stack = <<>>)
    /\ \A e \in swallowed : e.what = "manifest"

\* the candidates of a directory whose manifest loads
CandidatesOf(d) == Range(Candidates(d, tree[d].language))

\* nothing raised while d was processed
Clean(d) == \A e \in swallowed : e.directory # d

\* C13: a directory whose module.yaml does not load is skipped: nothing of it
\* is registered, discover_modules does not raise, and every other directory
\* of the walk is still processed, its implementations registered.
C13_UnparsableManifestIsSkipped ==
    /\ dpc # "raised"
    /\ \A d \in walked : ~tree[d].parses =>
           \A k \in DOMAIN modules : modules[k].directory # d
    /\ dpc = "done" =>
           \A d \in InitialDirs \cap DOMAIN tree :
               /\ d \in walked
               /\ (tree[d].parses /\ Clean(d)) =>
                      \A c \in CandidatesOf(d) :
                          c.key \in DOMAIN modules /\ modules[c.key] = c

\* dirM does not load, and the scripts of the other directory are registered
C13_Witness ==
    /\ dpc = "done"
    /\ ~tree[dirM].parses /\ dirM \in walked
    /\ dirAB \in walked
    /\ \E k \in DOMAIN modules : modules[k].directory = dirAB

\* the key the claim gives an implementation
ClaimedKey(c) == Basename(c.directory) \o <<DOT>> \o c.impl

\* C14: when every manifest loads (and nothing else raises), discover
\* registers exactly the implementations found in the directories it went
\* through, each under <directory-basename>.<implementation-name>.
C14_RegistersExactlyWhatIsFound ==
    (/\ dpc = "done"
     /\ swallowed = {}
     /\ \A d \in DOMAIN tree : tree[d].parses)
    => DOMAIN modules =
           {sBaseDummy} \cup {ClaimedKey(c) : c \in UNION {CandidatesOf(d) : d \in walked}}

\* C17: every call of install_module gets the url of its dependency and the
\* version that dependency declares.
C17_DeclaredVersionPassed ==
    \A i \in 1..Len(installs) : installs[i].version = installs[i].declared

\* the directories the dependencies of d are cloned into
DependsOn(d) ==
    IF tree[d].parses
    THEN {RepoDir(RootDir, tree[d].deps[i].url) : i \in 1..Len(tree[d].deps)}
    ELSE {}

\* the directories reached from those of S along dependencies
RECURSIVE ReachedFrom(_)
ReachedFrom(S) ==
    LET more == S \cup UNION {DependsOn(d) : d \in S}
    IN IF more = S THEN S ELSE ReachedFrom(more)

\* the dependency graph below self.directory contains a cycle
Cyclic ==
    \E d \in ReachedFrom(InitialDirs \cap DOMAIN tree) : d \in ReachedFrom(DependsOn(d))

AllCloned == \A i \in 1..Len(installs) : installs[i].ok

HitLimit == \E e \in swallowed : e.what = "recursion"

getenv(name, default, host, env) ==
    IF Truthy(host, name) THEN host[name]
    ELSE IF name \in DOMAIN env THEN env[name]
    ELSE default

GetNames == {<<"F">>, sFOO, <<"G">>}
GetHostEnvs == HostEnvs \cup {<<"G">> :> <<"h">>}
GetModuleEnvs == ModuleEnvs \cup {<<"G">> :> <<>>}
GetDefaults == {None, <<"d">>}

InitGet ==
    /\ gName \in GetNames
    /\ gHost \in GetHostEnvs
    /\ gEnv \in GetModuleEnvs
    /\ gDefault \in GetDefaults
    /\ gResult = <<>>
    /\ gDone = FALSE
    /\ SubstIdle /\ BindIdle /\ RunIdle /\ ArtIdle
    /\ ConsIdle /\ DiscIdle /\ IntroIdle /\ JbossIdle

Getenv ==
    /\ ~gDone
    /\ gResult' = getenv(gName, gDefault, gHost, gEnv)
    /\ gDone' = TRUE
    /\ UNCHANGED <<gName, gHost, gEnv, gDefault, substVars, bindVars, runVars,
                   artVars, consVars, discVars, introVars, jbossVars>>

NextGet == Getenv

SpecGet == InitGet /\ [][NextGet]_vars

\* C15: getenv returns the host value of a name that is set in the host
\* environment, whatever the module environment holds; else the module's value
\* of a name set there; and the default only when the name is in neither.
C15_HostThenModuleThenDefault ==
    gDone =>
        IF gName \in DOMAIN gHost THEN gResult = gHost[gName]
        ELSE IF gName \in DOMAIN gEnv THEN gResult = gEnv[gName]
        ELSE gResult = gDefault

(***************************************************************************)
(* ShellModule._discover on bounded scripts.                               *)
(***************************************************************************)
NL == "\n"
HASH == "#"
sFunction == <<"f", "u", "n", "c", "t", "i", "o", "n">>
Digits == {"0", "1", "2", "3", "4", "5", "6", "7", "8", "9"}

\* s.split(): cuts at runs of whitespace, no empty tokens
RECURSIVE SplitWs(_)
SplitWs(s) ==
    IF s = <<>> THEN <<>>
    ELSE IF s[1] \in {SP, NL} THEN SplitWs(Tail(s))
    ELSE LET ends == {i \in 1..Len(s) : s[i] \in {SP, NL}}
             n == IF ends = {} THEN Len(s) + 1
                  ELSE CHOOSE i \in ends : \A j \in ends : i <= j
         IN <<SubSeq(s, 1, n - 1)>> \o SplitWs(SubSeq(s, n, Len(s)))

\* where re.compile("\$\d+") matches in the line
ParamMatches(line) ==
    {i \in 1..(Len(line) - 1) : line[i] = SIGIL /\ line[i + 1] \in Digits}

\* param.search(line).group(0): the first match, with all its digits
ParamToken(line) ==
    LET i == CHOOSE m \in ParamMatches(line) : \A k \in ParamMatches(line) : m <= k
        last == CHOOSE e \in (i + 1)..Len(line) :
                    /\ \A k \in (i + 1)..e : line[k] \in Digits
                    /\ (e = Len(line) \/ line[e + 1] \notin Digits)
    IN SubSeq(line, i, last)

\* line 361: line.split()[1][:-2]
FunctionName(line) == DropLast(SplitWs(line)[2], 2)

\* line 367: line.split('=')[0].split()[-1]
ParamName(line) ==
    LET tokens == SplitWs(Split(line, EQ)[1]) IN tokens[Len(tokens)]

\* what the loop of _discover carries: self.names, comment, name, and whether
\* an exception ended it
LoopStart == [names |-> EmptyDict, comment |-> <<>>, name |-> <<>>, raised |-> FALSE]

Descriptor(name, comment) == [name |-> name, comment |-> comment, params |-> EmptyDict]

WithFunction(table, name, comment) ==
    [k \in DOMAIN table \cup {name} |->
        IF k = name THEN Descriptor(name, comment) ELSE table[k]]

WithParam(table, name, param_name, token) ==
    [table EXCEPT ![name].params =
        [k \in DOMAIN @ \cup {param_name} |-> IF k = param_name THEN token ELSE @[k]]]

\* a loop body that empties the comment buffer once a function has taken it
DiscoverLineResetting(st, line) ==
    IF StartsWith(line, HASH)
    THEN [st EXCEPT !.comment = @ \o Tail(line)]
    ELSE IF SubstringOf(sFunction, line)
    THEN IF Len(SplitWs(line)) < 2 THEN [st EXCEPT !.raised = TRUE]
         ELSE [st EXCEPT !.name = FunctionName(line), !.comment = <<>>,
                         !.names = WithFunction(@, FunctionName(line), st.comment)]
    ELSE IF ParamMatches(line) # {}
    THEN IF st.name \notin DOMAIN st.names \/ SplitWs(Split(line, EQ)[1]) = <<>>
         THEN [st EXCEPT !.raised = TRUE]
         ELSE [st EXCEPT !.names =
                   WithParam(@, st.name, ParamName(line), ParamToken(line))]
    ELSE [st EXCEPT !.comment = <<>>]

\* lines 357-370: the body of the loop of _discover on one line
DiscoverLine(st, line) ==
    IF StartsWith(line, HASH)
    THEN [st EXCEPT !.comment = @ \o Tail(line)]
    ELSE IF SubstringOf(sFunction, line)
    THEN IF Len(SplitWs(line)) < 2 THEN [st EXCEPT !.raised = TRUE]
         ELSE [st EXCEPT !.name = FunctionName(line),
                         !.names = WithFunction(@, FunctionName(line), st.comment)]
    ELSE IF ParamMatches(line) # {}
    THEN IF st.name \notin DOMAIN st.names \/ SplitWs(Split(line, EQ)[1]) = <<>>
         THEN [st EXCEPT !.raised = TRUE]
         ELSE [st EXCEPT !.names =
                   WithParam(@, st.name, ParamName(line), ParamToken(line))]
    ELSE [st EXCEPT !.comment = <<>>]

\* ShellModule._discover (349-370): the loop over the lines of the script
RECURSIVE _discover(_, _)
_discover(lines, st) ==
    IF lines = <<>> \/ st.raised THEN st
    ELSE _discover(Tail(lines), DiscoverLine(st, Head(lines)))

\* Inputs: two comment lines, two definitions (one with its body on the
\* line), an assignment from a positional parameter, a blank line
lineA == <<HASH, "a", NL>>
lineB == <<HASH, "b", NL>>
lineF == sFunction \o <<SP, "f", "(", ")", SP, "{", NL>>
lineG == sFunction \o <<SP, "g", "(", ")", SP, "{", SP, ":", SP, SIGIL, "1", ";", SP, "}", NL>>
lineP == <<"x", EQ, SIGIL, "1", NL>>
lineBlank == <<NL>>
ScriptLines == {lineA, lineB, lineF, lineG, lineP, lineBlank}
Scripts == UNION {[1..n -> ScriptLines] : n \in 0..MaxLines}

InitIntro ==
    /\ script \in Scripts
    /\ names = EmptyDict
    /\ iEnd = "none"
    /\ SubstIdle /\ BindIdle /\ RunIdle /\ ArtIdle
    /\ ConsIdle /\ DiscIdle /\ GetIdle /\ JbossIdle

\* ShellModule.__init__ (336-339) calls self._discover()
Introspect ==
    /\ iEnd = "none"
    /\ LET st == _discover(script, LoopStart)
       IN /\ names' = st.names
          /\ iEnd' = IF st.raised THEN "raised" ELSE "returned"
    /\ UNCHANGED <<script, substVars, bindVars, runVars, artVars, consVars,
                   discVars, getVars, jbossVars>>

NextIntro == Introspect

SpecIntro == InitIntro /\ [][NextIntro]_vars

\* how _discover sorts a line
IsComment(line) == StartsWith(line, HASH)
IsDefinition(line) == ~IsComment(line) /\ SubstringOf(sFunction, line)
IsParameter(line) == ~IsComment(line) /\ ~IsDefinition(line) /\ ParamMatches(line) # {}
IsOther(line) == ~IsComment(line) /\ ~IsDefinition(line) /\ ~IsParameter(line)

\* the text of the comment lines among script[lo..hi], sigil stripped
RECURSIVE CommentText(_, _)
CommentText(lo, hi) ==
    IF lo > hi THEN <<>>
    ELSE (IF IsComment(script[lo]) THEN Tail(script[lo]) ELSE <<>>)
         \o CommentText(lo + 1, hi)

\* line i is the definition that gives its function the descriptor it has
DefinesLast(i) ==
    /\ IsDefinition(script[i])
    /\ \A j \in (i + 1)..Len(script) :
           IsDefinition(script[j]) => FunctionName(script[j]) # FunctionName(script[i])

\* the first line of the block of comment lines that ends right before line i
BlockStart(i) ==
    CHOOSE lo \in 1..i :
        /\ \A j \in lo..(i - 1) : IsComment(script[j])
        /\ (lo = 1 \/ ~IsComment(script[lo - 1]))

\* the line after the last line before i that empties the buffer
PendingStart(i) ==
    CHOOSE lo \in 1..i :
        /\ \A j \in lo..(i - 1) : ~IsOther(script[j])
        /\ (lo = 1 \/ IsOther(script[lo - 1]))

\* C16 as stated: the documentation of a function is exactly the block of
\* comment lines right before its definition (empty when the line before the
\* definition is no comment line).
C16_DocIsPrecedingBlock ==
    iEnd = "returned" =>
        \A i \in 1..Len(script) : DefinesLast(i) =>
            /\ FunctionName(script[i]) \in DOMAIN names
            /\ names[FunctionName(script[i])].comment = CommentText(BlockStart(i), i - 1)

\* C16, amended: the documentation of a function is the text of all comment
\* lines since the last line that is neither a comment, a definition nor a
\* parameter line (or since the start of the script): the block right before
\* the definition, preceded by the comments that earlier definitions and
\* parameter lines left in the buffer.
C16_DocIsPendingBuffer ==
    iEnd = "returned" =>
        /\ DOMAIN names =
               {FunctionName(script[i]) : i \in {k \in 1..Len(script) : IsDefinition(script[k])}}
        /\ \A i \in 1..Len(script) : DefinesLast(i) =>
               names[FunctionName(script[i])].comment =
                   CommentText(PendingStart(i), i - 1)

\* a comment, f, another comment, g: g has both comments; and a blank line
\* before a definition leaves it without documentation
C16_Witness ==
    /\ iEnd = "returned"
    /\ script = <<lineA, lineG, lineB, lineF>>
    /\ names[<<"g">>].comment = <<"a", NL>>
    /\ names[<<"f">>].comment = <<"a", NL, "b", NL>>

(***************************************************************************)
(* JBossCliModule.teardown (cct/lib/jboss_module.py).                      *)
(***************************************************************************)
\* the default of setup's jboss_timeout, and the argument of sleep, in seconds
DefaultJbossTimeout == 120
SleepSeconds == 5

Timeouts == {10, DefaultJbossTimeout}

\* jboss_process.poll() is None
Running == jprocess = "running"

\* line 89: self.jboss_process.poll() is None or time() > start + self.jboss_timeout
WaitCondition == Running \/ jnow > jstart + jtimeout

\* after setup: the server was launched (or not), and may have exited since
InitJboss ==
    /\ jpc = "idle"
    /\ jprocess \in {"none", "running", "exit0", "exit1"}
    /\ jnow = 0
    /\ jstart = 0
    /\ jtimeout \in Timeouts
    /\ jcleared = FALSE
    /\ SubstIdle /\ BindIdle /\ RunIdle /\ ArtIdle
    /\ ConsIdle /\ DiscIdle /\ GetIdle /\ IntroIdle

NotJboss == <<substVars, bindVars, runVars, artVars, consVars, discVars, getVars,
              introVars>>

\* line 85: no process was launched, teardown returns
NoProcess ==
    /\ jpc = "idle" /\ jprocess = "none"
    /\ jpc' = "done"
    /\ UNCHANGED <<jprocess, jnow, jstart, jtimeout, jcleared, NotJboss>>

\* lines 85-88: the shutdown command returns, start is taken
ShutdownReturns ==
    /\ jpc = "idle" /\ jprocess # "none"
    /\ jstart' = jnow
    /\ jpc' = "wait"
    /\ UNCHANGED <<jprocess, jnow, jtimeout, jcleared, NotJboss>>

\* line 87: _run_jboss_cli raises (66) and teardown with it
ShutdownRaises ==
    /\ jpc = "idle" /\ jprocess # "none"
    /\ jpc' = "raised"
    /\ UNCHANGED <<jprocess, jnow, jstart, jtimeout, jcleared, NotJboss>>

\* line 89: the condition holds, the body is entered
LoopGoesOn ==
    /\ jpc = "wait" /\ WaitCondition
    /\ jpc' = "sleep"
    /\ UNCHANGED <<jprocess, jnow, jstart, jtimeout, jcleared, NotJboss>>

\* lines 90-91: sleep(5) returns
SleepReturns ==
    /\ jpc = "sleep"
    /\ jnow' = IF jnow + SleepSeconds > MaxTime THEN MaxTime ELSE jnow + SleepSeconds
    /\ jpc' = "wait"
    /\ UNCHANGED <<jprocess, jstart, jtimeout, jcleared, NotJboss>>

\* lines 89 and 92-96: the condition fails; a non-zero return code raises,
\* else the directories are cleared
LoopLeaves ==
    /\ jpc = "wait" /\ ~WaitCondition
    /\ jpc' = IF jprocess = "exit0" THEN "done" ELSE "raised"
    /\ jcleared' = (jprocess = "exit0")
    /\ UNCHANGED <<jprocess, jnow, jstart, jtimeout, NotJboss>>

\* the server process exits, with return code 0 or not
ProcessExits ==
    /\ jprocess = "running"
    /\ jpc \in {"idle", "wait", "sleep"}
    /\ jprocess' \in {"exit0", "exit1"}
    /\ UNCHANGED <<jpc, jnow, jstart, jtimeout, jcleared, NotJboss>>

\* the steps of teardown itself
TeardownStep ==
    \/ NoProcess
    \/ ShutdownReturns
    \/ ShutdownRaises
    \/ LoopGoesOn
    \/ SleepReturns
    \/ LoopLeaves

NextJboss == TeardownStep \/ ProcessExits

SpecJboss == InitJboss /\ [][NextJboss]_vars

\* teardown keeps running; the server process need not ever exit
SpecJbossFair == SpecJboss /\ WF_vars(TeardownStep)

\* C20: once the shutdown command has returned, teardown terminates: it leaves
\* the wait loop when the process has exited, before or after jboss_timeout
\* has elapsed, and does not wait forever when the process never exits.
C20_TeardownTerminates ==
    /\ [](jpc = "wait" /\ ~Running => ~WaitCondition)
    /\ (jpc = "wait") ~> (jpc \in {"done", "raised"})

====
